---- MODULE Spec2Model ----
(***************************************************************************)
(* Model of the event hub consumer, eventhub/consumer/consumer.go:         *)
(* OBCEventClient.Start / register / processEvents / Stop, the EventAdapter *)
(* they call, and the peer at the other end of the Chat stream.            *)
(*                                                                         *)
(* One caller drives the client (Start and Stop calls, one at a time).     *)
(* Every Start call is an "attempt", numbered 1, 2, ...  Attempt a opens   *)
(* stream a, spawns the register helper goroutine of attempt a and, when   *)
(* register returns nil, the processEvents goroutine of attempt a.         *)
(***************************************************************************)
EXTENDS Naturals, Sequences, FiniteSets

\* ---- bounds ----
MaxStarts == 2      \* Start calls made by the caller
MaxStops == 2       \* Stop calls made by the caller
MaxFrames == 3      \* frames the peer sends, over all streams

Attempts == 1..MaxStarts

\* ---- frames of the stream (ehpb.EventHubMessage) ----
\* "ack"   : Event is *EventHubMessage_RegisterEvent
\* "evA/B" : Event is *EventHubMessage_TransactionEvent (two distinct payloads)
\* "nilEv" : Event is nil
\* "other" : any other variant of the oneof
Frames == {"ack", "evA", "evB", "nilEv", "other"}

Kind(f) ==
  CASE f = "ack" -> "RegisterEvent"
    [] f \in {"evA", "evB"} -> "TransactionEvent"
    [] f = "nilEv" -> "nil"
    [] OTHER -> "default"

\* ---- error values ----
\* "nil" is the nil error; "EOF" is io.EOF; "ErrRecv" is any other error of
\* stream.Recv; "ErrHandler" is an error returned by adapter.Recv.
RecvErrors == {"EOF", "ErrRecv"}

VARIABLES
  adapter,     \* ec.adapter: "null" or "set"
  ies,         \* what adapter.GetInterestedEvents() returns: "nil", "empty", "some"
  stream,      \* ec.stream: 0 is nil, s > 0 is the stream opened by attempt s
  nStarts,     \* Start calls made so far; the current attempt
  nStops,      \* Stop calls made so far
  cpc,         \* the caller: "idle", "select" (in register's select), "timedout"
  startRet,    \* per attempt: "none" (not called), "pending", "panic" or the error returned
  viaChan,     \* per attempt: TRUE when register's select took the regChan case
  stopRet,     \* results of the Stop calls, in order: an error or "panic"
  err,         \* per attempt: register's variable err, shared with the helper
  regChan,     \* per attempt: "none", "open", "closed"
  hpc,         \* helper goroutine: "none", "spawned", "recv", "send", "exited"
  hstream,     \* stream the helper's Recv call is on
  hin,         \* frame the helper's Recv returned, or "none"
  lpc,         \* processEvents goroutine: "none", "spawned", "top", "recv", "handler", "exited"
  lstream,     \* stream the loop's current Recv call is on
  lclose,      \* stream bound by the deferred CloseSend
  lret,        \* value processEvents returned, or "none"
  got,         \* frames the loop's Recv calls returned, in order
  trace,       \* per attempt: calls made on the adapter (and the returns of its
               \* Recv), and the loop's CloseSend, in order
  net,         \* per attempt: network activity of Start: "dial", "chat", "send"
  wire,        \* per stream: frames sent by the peer and not yet received
  sentLog,     \* per stream: every frame the peer sent, in order
  ended,       \* per stream: "unopened", "open", "EOF", "ErrRecv"
  sendClosed,  \* per stream: TRUE once the outbound direction is half-closed
  nSent,       \* frames sent by the peer so far
  crashed      \* the process panicked

vars == <<adapter, ies, stream, nStarts, nStops, cpc, startRet, viaChan, stopRet,
          err, regChan, hpc, hstream, hin, lpc, lstream, lclose, lret, got,
          trace, net, wire, sentLog, ended, sendClosed, nSent, crashed>>

callerVars == <<nStarts, nStops, cpc, startRet, viaChan, stopRet>>
helperVars == <<hpc, hstream, hin>>
loopVars == <<lpc, lstream, lclose, lret, got>>
peerVars == <<wire, sentLog, ended, nSent>>
configVars == <<adapter, ies>>

\* NewOBCEventHubClient: &OBCEventClient{peerAddress, nil, adapter}
Init ==
  /\ adapter \in {"null", "set"}
  /\ ies \in (IF adapter = "null" THEN {"nil"} ELSE {"nil", "empty", "some"})
  /\ stream = 0
  /\ nStarts = 0
  /\ nStops = 0
  /\ cpc = "idle"
  /\ startRet = [a \in Attempts |-> "none"]
  /\ viaChan = [a \in Attempts |-> FALSE]
  /\ stopRet = <<>>
  /\ err = [a \in Attempts |-> "nil"]
  /\ regChan = [a \in Attempts |-> "none"]
  /\ hpc = [a \in Attempts |-> "none"]
  /\ hstream = [a \in Attempts |-> 0]
  /\ hin = [a \in Attempts |-> "none"]
  /\ lpc = [a \in Attempts |-> "none"]
  /\ lstream = [a \in Attempts |-> 0]
  /\ lclose = [a \in Attempts |-> 0]
  /\ lret = [a \in Attempts |-> "none"]
  /\ got = [a \in Attempts |-> <<>>]
  /\ trace = [a \in Attempts |-> <<>>]
  /\ net = [a \in Attempts |-> {}]
  /\ wire = [s \in Attempts |-> <<>>]
  /\ sentLog = [s \in Attempts |-> <<>>]
  /\ ended = [s \in Attempts |-> "unopened"]
  /\ sendClosed = [s \in Attempts |-> FALSE]
  /\ nSent = 0
  /\ crashed = FALSE

\* ---- Start, up to its return or to register's select ----

\* The caller may call Start: it is idle and the process is alive.
CanStart == cpc = "idle" /\ ~crashed /\ nStarts < MaxStarts

\* Start returns e without having reached register's select.
StartReturns(a, e, netw, tr) ==
  /\ nStarts' = a
  /\ startRet' = [startRet EXCEPT ![a] = e]
  /\ net' = [net EXCEPT ![a] = netw]
  /\ trace' = [trace EXCEPT ![a] = tr]
  /\ UNCHANGED <<nStops, cpc, viaChan, stopRet, err, regChan>>
  /\ UNCHANGED <<helperVars, loopVars, peerVars, configVars, sendClosed>>

\* StartDialFails with the interest set fetched before the dial.
StartDialFails_AsksAdapterFirst ==
  /\ CanStart
  /\ adapter = "set"
  /\ StartReturns(nStarts + 1, "ErrConn", {"dial"}, <<<<"GetInterestedEvents", "-">>>>)
  /\ UNCHANGED <<stream, crashed>>

\* grpc.Dial fails: return "Could not create client conn".
StartDialFails ==
  /\ CanStart
  /\ StartReturns(nStarts + 1, "ErrConn", {"dial"}, <<>>)
  /\ UNCHANGED <<stream, crashed>>

\* ec.adapter is nil: the call ec.adapter.GetInterestedEvents() panics.
StartNilAdapter ==
  /\ CanStart
  /\ adapter = "null"
  /\ StartReturns(nStarts + 1, "panic", {"dial"}, <<>>)
  /\ crashed' = TRUE
  /\ UNCHANGED stream

\* ies == nil: return "no interested events".
StartNoInterestedEvents ==
  /\ CanStart
  /\ adapter = "set"
  /\ ies = "nil"
  /\ StartReturns(nStarts + 1, "ErrNoEvents", {"dial"}, <<<<"GetInterestedEvents", "-">>>>)
  /\ UNCHANGED <<stream, crashed>>

\* serverClient.Chat fails: ec.stream is assigned Chat's nil stream.
StartChatFails ==
  /\ CanStart
  /\ adapter = "set"
  /\ ies # "nil"
  /\ StartReturns(nStarts + 1, "ErrConn", {"dial", "chat"}, <<<<"GetInterestedEvents", "-">>>>)
  /\ stream' = 0
  /\ UNCHANGED crashed

\* Chat opens stream a; register's Send fails and register returns the error.
StartSendFails ==
  /\ CanStart
  /\ adapter = "set"
  /\ ies # "nil"
  /\ LET a == nStarts + 1 IN
     /\ nStarts' = a
     /\ startRet' = [startRet EXCEPT ![a] = "ErrSend"]
     /\ net' = [net EXCEPT ![a] = {"dial", "chat", "send"}]
     /\ trace' = [trace EXCEPT ![a] = <<<<"GetInterestedEvents", "-">>>>]
     /\ stream' = a
     /\ ended' = [ended EXCEPT ![a] = "open"]
  /\ UNCHANGED <<nStops, cpc, viaChan, stopRet, err, regChan, crashed>>
  /\ UNCHANGED <<helperVars, loopVars, configVars, sendClosed, wire, sentLog, nSent>>

\* Chat opens stream a, the registration is sent, the helper goroutine is
\* spawned and register blocks in its select.
StartAwaitsRegistration ==
  /\ CanStart
  /\ adapter = "set"
  /\ ies # "nil"
  /\ LET a == nStarts + 1 IN
     /\ nStarts' = a
     /\ startRet' = [startRet EXCEPT ![a] = "pending"]
     /\ net' = [net EXCEPT ![a] = {"dial", "chat", "send"}]
     /\ trace' = [trace EXCEPT ![a] = <<<<"GetInterestedEvents", "-">>>>]
     /\ stream' = a
     /\ ended' = [ended EXCEPT ![a] = "open"]
     /\ regChan' = [regChan EXCEPT ![a] = "open"]
     /\ hpc' = [hpc EXCEPT ![a] = "spawned"]
     /\ cpc' = "select"
  /\ UNCHANGED <<nStops, viaChan, stopRet, err, crashed, hstream, hin>>
  /\ UNCHANGED <<loopVars, configVars, sendClosed, wire, sentLog, nSent>>

\* ---- register: the helper goroutine and the select ----

\* RegisterSwitch with the TransactionEvent case left empty, as the
\* RegisterEvent case is.
RegisterSwitch_AcceptsTransaction(f) ==
  CASE Kind(f) \in {"RegisterEvent", "TransactionEvent"} -> "nil"
    [] Kind(f) = "nil" -> "ErrNilObject"
    [] OTHER -> "ErrRegistrationObject"

\* The switch on in.Event.(type) in the helper: the error it assigns to err,
\* "nil" when it assigns nothing.
RegisterSwitch(f) ==
  CASE Kind(f) = "RegisterEvent" -> "nil"
    [] Kind(f) = "TransactionEvent" -> "ErrTransaction"
    [] Kind(f) = "nil" -> "ErrNilObject"
    [] OTHER -> "ErrRegistrationObject"

ProtocolErrors == {"ErrTransaction", "ErrNilObject", "ErrRegistrationObject"}

\* The helper starts running and calls ec.stream.Recv(); a nil ec.stream panics.
HelperCallRecv(a) ==
  /\ ~crashed
  /\ hpc[a] = "spawned"
  /\ IF stream = 0
       THEN /\ crashed' = TRUE
            /\ UNCHANGED <<hpc, hstream>>
       ELSE /\ hpc' = [hpc EXCEPT ![a] = "recv"]
            /\ hstream' = [hstream EXCEPT ![a] = stream]
            /\ UNCHANGED crashed
  /\ UNCHANGED <<callerVars, loopVars, peerVars, configVars>>
  /\ UNCHANGED <<stream, err, regChan, hin, trace, net, sendClosed>>

\* The helper's Recv returns a frame: classify it, assign err, and block on
\* the send to the unbuffered regChan.
HelperRecvFrame(a) ==
  /\ ~crashed
  /\ hpc[a] = "recv"
  /\ wire[hstream[a]] # <<>>
  /\ LET f == Head(wire[hstream[a]]) IN
     /\ wire' = [wire EXCEPT ![hstream[a]] = Tail(@)]
     /\ hin' = [hin EXCEPT ![a] = f]
     /\ err' = [err EXCEPT ![a] = IF RegisterSwitch(f) = "nil" THEN @ ELSE RegisterSwitch(f)]
     /\ hpc' = [hpc EXCEPT ![a] = "send"]
  /\ UNCHANGED <<callerVars, loopVars, configVars, sentLog, ended, nSent>>
  /\ UNCHANGED <<stream, regChan, hstream, trace, net, sendClosed, crashed>>

\* The helper's Recv returns an error: err = inerr, return (regChan is closed
\* by the deferred close).
HelperRecvError(a) ==
  /\ ~crashed
  /\ hpc[a] = "recv"
  /\ wire[hstream[a]] = <<>>
  /\ ended[hstream[a]] \in RecvErrors
  /\ err' = [err EXCEPT ![a] = ended[hstream[a]]]
  /\ regChan' = [regChan EXCEPT ![a] = "closed"]
  /\ hpc' = [hpc EXCEPT ![a] = "exited"]
  /\ UNCHANGED <<callerVars, loopVars, peerVars, configVars>>
  /\ UNCHANGED <<stream, hstream, hin, trace, net, sendClosed, crashed>>

\* RegisterReturns with Start ignoring register's error before the go statement.
RegisterReturns_AlwaysSpawns(a, e) ==
  /\ startRet' = [startRet EXCEPT ![a] = e]
  /\ cpc' = "idle"
  /\ lpc' = [lpc EXCEPT ![a] = "spawned"]

\* register returns e to Start: Start returns it, after spawning
\* processEvents when it is nil.
RegisterReturns(a, e) ==
  /\ startRet' = [startRet EXCEPT ![a] = e]
  /\ cpc' = "idle"
  /\ lpc' = [lpc EXCEPT ![a] = IF e = "nil" THEN "spawned" ELSE @]

\* The select takes the regChan case: the helper's send is received, or the
\* channel is closed. The helper, if it was sending, runs its deferred close
\* and exits.
StartRegistered ==
  /\ ~crashed
  /\ cpc = "select"
  /\ LET a == nStarts IN
     /\ hpc[a] = "send" \/ regChan[a] = "closed"
     /\ viaChan' = [viaChan EXCEPT ![a] = TRUE]
     /\ hpc' = [hpc EXCEPT ![a] = "exited"]
     /\ regChan' = [regChan EXCEPT ![a] = "closed"]
     /\ RegisterReturns(a, err[a])
  /\ UNCHANGED <<nStarts, nStops, stopRet, hstream, hin>>
  /\ UNCHANGED <<lstream, lclose, lret, got, peerVars, configVars>>
  /\ UNCHANGED <<stream, err, trace, net, sendClosed, crashed>>

\* StartTimesOut for a select without the time.After case: it never fires.
StartTimesOut_NoTimer ==
  /\ ~crashed
  /\ cpc = "select"
  /\ FALSE
  /\ UNCHANGED vars

\* The select takes the time.After case: err = "timeout waiting for registration".
StartTimesOut ==
  /\ ~crashed
  /\ cpc = "select"
  /\ err' = [err EXCEPT ![nStarts] = "ErrTimeout"]
  /\ cpc' = "timedout"
  /\ UNCHANGED <<nStarts, nStops, startRet, viaChan, stopRet>>
  /\ UNCHANGED <<helperVars, loopVars, peerVars, configVars>>
  /\ UNCHANGED <<stream, regChan, trace, net, sendClosed, crashed>>

\* After the timeout case: return err, read from the variable the helper
\* may write concurrently.
StartReturnsAfterTimeout ==
  /\ ~crashed
  /\ cpc = "timedout"
  /\ RegisterReturns(nStarts, err[nStarts])
  /\ UNCHANGED <<nStarts, nStops, viaChan, stopRet, helperVars>>
  /\ UNCHANGED <<lstream, lclose, lret, got, peerVars, configVars>>
  /\ UNCHANGED <<stream, err, regChan, trace, net, sendClosed, crashed>>

\* ---- processEvents ----

\* stream.CloseSend(): half-closes the outbound direction of stream s.
CloseSend(s) == [sendClosed EXCEPT ![s] = TRUE]

\* The goroutine starts: defer ec.stream.CloseSend() binds the stream; a nil
\* ec.stream panics.
LoopEnter(a) ==
  /\ ~crashed
  /\ lpc[a] = "spawned"
  /\ IF stream = 0
       THEN /\ crashed' = TRUE
            /\ UNCHANGED <<lpc, lclose>>
       ELSE /\ lpc' = [lpc EXCEPT ![a] = "top"]
            /\ lclose' = [lclose EXCEPT ![a] = stream]
            /\ UNCHANGED crashed
  /\ UNCHANGED <<callerVars, helperVars, peerVars, configVars>>
  /\ UNCHANGED <<stream, err, regChan, lstream, lret, got, trace, net, sendClosed>>

\* Top of the for loop: call ec.stream.Recv() on the current ec.stream.
LoopCallRecv(a) ==
  /\ ~crashed
  /\ lpc[a] = "top"
  /\ IF stream = 0
       THEN /\ crashed' = TRUE
            /\ UNCHANGED <<lpc, lstream>>
       ELSE /\ lpc' = [lpc EXCEPT ![a] = "recv"]
            /\ lstream' = [lstream EXCEPT ![a] = stream]
            /\ UNCHANGED crashed
  /\ UNCHANGED <<callerVars, helperVars, peerVars, configVars>>
  /\ UNCHANGED <<stream, err, regChan, lclose, lret, got, trace, net, sendClosed>>

\* LoopExit without the deferred CloseSend.
LoopExit_NoCleanup(a, r, tr) ==
  /\ lpc' = [lpc EXCEPT ![a] = "exited"]
  /\ lret' = [lret EXCEPT ![a] = r]
  /\ trace' = [trace EXCEPT ![a] = tr]
  /\ UNCHANGED sendClosed

\* processEvents returns r: the deferred CloseSend runs.
LoopExit(a, r, tr) ==
  /\ lpc' = [lpc EXCEPT ![a] = "exited"]
  /\ lret' = [lret EXCEPT ![a] = r]
  /\ trace' = [trace EXCEPT ![a] = tr \o <<<<"CloseSend", "-">>>>]
  /\ sendClosed' = CloseSend(lclose[a])

\* LoopRecvFrame with the second payload dropped instead of handed to
\* ec.adapter.Recv.
LoopRecvFrame_DropsFrame(a) ==
  /\ ~crashed
  /\ lpc[a] = "recv"
  /\ wire[lstream[a]] # <<>>
  /\ LET f == Head(wire[lstream[a]]) IN
     /\ wire' = [wire EXCEPT ![lstream[a]] = Tail(@)]
     /\ got' = [got EXCEPT ![a] = Append(@, f)]
     /\ IF adapter # "null" /\ f # "evB"
          THEN /\ lpc' = [lpc EXCEPT ![a] = "handler"]
               /\ trace' = [trace EXCEPT ![a] = Append(@, <<"Recv", f>>)]
          ELSE /\ lpc' = [lpc EXCEPT ![a] = "top"]
               /\ UNCHANGED trace
  /\ UNCHANGED <<callerVars, helperVars, configVars, sentLog, ended, nSent>>
  /\ UNCHANGED <<stream, err, regChan, lstream, lclose, lret, net, sendClosed, crashed>>

\* Recv returns a frame: if ec.adapter != nil, call ec.adapter.Recv(in).
LoopRecvFrame(a) ==
  /\ ~crashed
  /\ lpc[a] = "recv"
  /\ wire[lstream[a]] # <<>>
  /\ LET f == Head(wire[lstream[a]]) IN
     /\ wire' = [wire EXCEPT ![lstream[a]] = Tail(@)]
     /\ got' = [got EXCEPT ![a] = Append(@, f)]
     /\ IF adapter # "null"
          THEN /\ lpc' = [lpc EXCEPT ![a] = "handler"]
               /\ trace' = [trace EXCEPT ![a] = Append(@, <<"Recv", f>>)]
          ELSE /\ lpc' = [lpc EXCEPT ![a] = "top"]
               /\ UNCHANGED trace
  /\ UNCHANGED <<callerVars, helperVars, configVars, sentLog, ended, nSent>>
  /\ UNCHANGED <<stream, err, regChan, lstream, lclose, lret, net, sendClosed, crashed>>

\* adapter.Recv returned nil: next iteration.
LoopHandlerOk(a) ==
  /\ ~crashed
  /\ lpc[a] = "handler"
  /\ lpc' = [lpc EXCEPT ![a] = "top"]
  /\ trace' = [trace EXCEPT ![a] = Append(@, <<"RecvReturns", "nil">>)]
  /\ UNCHANGED <<callerVars, helperVars, peerVars, configVars>>
  /\ UNCHANGED <<stream, err, regChan, lstream, lclose, lret, got, net, sendClosed, crashed>>

\* LoopHandlerError routed through the termination notification: Done(err)
\* before the return.
LoopHandlerError_CallsDone(a) ==
  /\ ~crashed
  /\ lpc[a] = "handler"
  /\ LoopExit(a, "ErrHandler",
              trace[a] \o <<<<"RecvReturns", "ErrHandler">>, <<"Done", "ErrHandler">>>>)
  /\ UNCHANGED <<callerVars, helperVars, peerVars, configVars>>
  /\ UNCHANGED <<stream, err, regChan, lstream, lclose, got, net, crashed>>

\* adapter.Recv returned an error: return err.
LoopHandlerError(a) ==
  /\ ~crashed
  /\ lpc[a] = "handler"
  /\ LoopExit(a, "ErrHandler", Append(trace[a], <<"RecvReturns", "ErrHandler">>))
  /\ UNCHANGED <<callerVars, helperVars, peerVars, configVars>>
  /\ UNCHANGED <<stream, err, regChan, lstream, lclose, got, net, crashed>>

\* The adapter calls the loop makes when Recv returns the error e.
DoneOnError(e) == IF adapter # "null" THEN <<<<"Done", e>>>> ELSE <<>>

\* LoopRecvEOF without the call of Done.
LoopRecvEOF_NoDone(a) ==
  /\ ~crashed
  /\ lpc[a] = "recv"
  /\ wire[lstream[a]] = <<>>
  /\ ended[lstream[a]] = "EOF"
  /\ LoopExit(a, "nil", trace[a])
  /\ UNCHANGED <<callerVars, helperVars, peerVars, configVars>>
  /\ UNCHANGED <<stream, err, regChan, lstream, lclose, got, net, crashed>>

\* Recv returns io.EOF: Done(nil), return nil.
LoopRecvEOF(a) ==
  /\ ~crashed
  /\ lpc[a] = "recv"
  /\ wire[lstream[a]] = <<>>
  /\ ended[lstream[a]] = "EOF"
  /\ LoopExit(a, "nil", trace[a] \o DoneOnError("nil"))
  /\ UNCHANGED <<callerVars, helperVars, peerVars, configVars>>
  /\ UNCHANGED <<stream, err, regChan, lstream, lclose, got, net, crashed>>

\* LoopRecvError without the return: Done(err), then the next iteration.
LoopRecvError_Continues(a) ==
  /\ ~crashed
  /\ lpc[a] = "recv"
  /\ wire[lstream[a]] = <<>>
  /\ ended[lstream[a]] \in RecvErrors \ {"EOF"}
  /\ Len(trace[a]) < 2 * MaxFrames + 4
  /\ lpc' = [lpc EXCEPT ![a] = "top"]
  /\ trace' = [trace EXCEPT ![a] = @ \o DoneOnError(ended[lstream[a]])]
  /\ UNCHANGED <<callerVars, helperVars, peerVars, configVars>>
  /\ UNCHANGED <<stream, err, regChan, lstream, lclose, lret, got, net, sendClosed, crashed>>

\* Recv returns another error: Done(err), return err.
LoopRecvError(a) ==
  /\ ~crashed
  /\ lpc[a] = "recv"
  /\ wire[lstream[a]] = <<>>
  /\ ended[lstream[a]] \in RecvErrors \ {"EOF"}
  /\ LoopExit(a, ended[lstream[a]], trace[a] \o DoneOnError(ended[lstream[a]]))
  /\ UNCHANGED <<callerVars, helperVars, peerVars, configVars>>
  /\ UNCHANGED <<stream, err, regChan, lstream, lclose, got, net, crashed>>

\* ---- Stop ----

\* Stop with a nil ec.stream: the call ec.stream.CloseSend() panics.
StopNilStream ==
  /\ ~crashed
  /\ cpc = "idle"
  /\ nStops < MaxStops
  /\ stream = 0
  /\ nStops' = nStops + 1
  /\ stopRet' = Append(stopRet, "panic")
  /\ crashed' = TRUE
  /\ UNCHANGED <<nStarts, cpc, startRet, viaChan>>
  /\ UNCHANGED <<helperVars, loopVars, peerVars, configVars>>
  /\ UNCHANGED <<stream, err, regChan, trace, net, sendClosed>>

\* StopCloseSend releasing the stream handle after the half-close.
StopCloseSend_ReleasesStream ==
  /\ ~crashed
  /\ cpc = "idle"
  /\ nStops < MaxStops
  /\ stream # 0
  /\ nStops' = nStops + 1
  /\ stopRet' = Append(stopRet, "nil")
  /\ sendClosed' = CloseSend(stream)
  /\ stream' = 0
  /\ UNCHANGED <<nStarts, cpc, startRet, viaChan>>
  /\ UNCHANGED <<helperVars, loopVars, peerVars, configVars>>
  /\ UNCHANGED <<err, regChan, trace, net, crashed>>

\* StopCloseSend cancelling the whole stream instead of half-closing it: the
\* pending frames are dropped and Recv fails.
StopCloseSend_CancelsStream ==
  /\ ~crashed
  /\ cpc = "idle"
  /\ nStops < MaxStops
  /\ stream # 0
  /\ nStops' = nStops + 1
  /\ stopRet' = Append(stopRet, "nil")
  /\ sendClosed' = CloseSend(stream)
  /\ wire' = [wire EXCEPT ![stream] = <<>>]
  /\ ended' = [ended EXCEPT ![stream] = "ErrRecv"]
  /\ UNCHANGED <<nStarts, cpc, startRet, viaChan>>
  /\ UNCHANGED <<helperVars, loopVars, configVars, sentLog, nSent>>
  /\ UNCHANGED <<stream, err, regChan, trace, net, crashed>>

\* Stop with a stream: return ec.stream.CloseSend().
StopCloseSend ==
  /\ ~crashed
  /\ cpc = "idle"
  /\ nStops < MaxStops
  /\ stream # 0
  /\ nStops' = nStops + 1
  /\ stopRet' = Append(stopRet, "nil")
  /\ sendClosed' = CloseSend(stream)
  /\ UNCHANGED <<nStarts, cpc, startRet, viaChan>>
  /\ UNCHANGED <<helperVars, loopVars, peerVars, configVars>>
  /\ UNCHANGED <<stream, err, regChan, trace, net, crashed>>

\* ---- the peer ----

\* The peer sends frame f on the open stream s.
PeerSend(s, f) ==
  /\ ~crashed
  /\ ended[s] = "open"
  /\ nSent < MaxFrames
  /\ wire' = [wire EXCEPT ![s] = Append(@, f)]
  /\ sentLog' = [sentLog EXCEPT ![s] = Append(@, f)]
  /\ nSent' = nSent + 1
  /\ UNCHANGED <<callerVars, helperVars, loopVars, configVars>>
  /\ UNCHANGED <<stream, err, regChan, trace, net, ended, sendClosed, crashed>>

\* The stream ends: cleanly (Recv will return io.EOF) or with an error.
PeerClose(s, e) ==
  /\ ~crashed
  /\ ended[s] = "open"
  /\ ended' = [ended EXCEPT ![s] = e]
  /\ UNCHANGED <<callerVars, helperVars, loopVars, configVars>>
  /\ UNCHANGED <<stream, err, regChan, trace, net, wire, sentLog, nSent, sendClosed, crashed>>

Next ==
  \/ StartDialFails
  \/ StartNilAdapter
  \/ StartNoInterestedEvents
  \/ StartChatFails
  \/ StartSendFails
  \/ StartAwaitsRegistration
  \/ StartRegistered
  \/ StartTimesOut
  \/ StartReturnsAfterTimeout
  \/ StopNilStream
  \/ StopCloseSend
  \/ \E a \in Attempts : HelperCallRecv(a)
  \/ \E a \in Attempts : HelperRecvFrame(a)
  \/ \E a \in Attempts : HelperRecvError(a)
  \/ \E a \in Attempts : LoopEnter(a)
  \/ \E a \in Attempts : LoopCallRecv(a)
  \/ \E a \in Attempts : LoopRecvFrame(a)
  \/ \E a \in Attempts : LoopHandlerOk(a)
  \/ \E a \in Attempts : LoopHandlerError(a)
  \/ \E a \in Attempts : LoopRecvEOF(a)
  \/ \E a \in Attempts : LoopRecvError(a)
  \/ \E s \in Attempts, f \in Frames : PeerSend(s, f)
  \/ \E s \in Attempts, e \in RecvErrors : PeerClose(s, e)

Spec == Init /\ [][Next]_vars

\* ---- reading the traces ----

IsRecv(ev) == ev[1] = "Recv"
IsDone(ev) == ev[1] = "Done"

\* The arguments of the adapter.Recv calls of a trace, in order.
RecvArgs(tr) ==
  LET s == SelectSeq(tr, IsRecv) IN [i \in 1..Len(s) |-> s[i][2]]

\* The arguments of the adapter.Done calls of a trace, in order.
DoneArgs(tr) ==
  LET s == SelectSeq(tr, IsDone) IN [i \in 1..Len(s) |-> s[i][2]]

\* The Recv calls of frames fs, each followed by its nil return.
Deliveries(fs) ==
  [i \in 1..(2 * Len(fs)) |->
     IF i % 2 = 1 THEN <<"Recv", fs[(i + 1) \div 2]>> ELSE <<"RecvReturns", "nil">>]

\* Start call a has returned an error value, nil included.
Returned(a) == startRet[a] \notin {"none", "pending", "panic"}

\* register of attempt a reached its select and left it by the timeout case.
TimedOut(a) == regChan[a] # "none" /\ ~viaChan[a] /\ Returned(a)

\* ---- claims ----

\* The loop of attempt a has returned because its Recv reported the end of
\* the stream: io.EOF (it returns nil) or another error (it returns it).
SawStreamEnd(a) == lpc[a] = "exited" /\ lret[a] \in {"nil", "ErrRecv"}

\* C1: when the helper's first frame is the acknowledgement and the select
\* takes the regChan case (the frame came before the timeout), Start returns
\* nil; no Done call is made while the loop runs, and once the loop's Recv
\* has reported the end of the stream exactly one Done call has been made.
C1_AckThenOneDone ==
  \A a \in Attempts :
    (viaChan[a] /\ hin[a] = "ack") =>
      /\ startRet[a] = "nil"
      /\ lpc[a] # "exited" => DoneArgs(trace[a]) = <<>>
      /\ SawStreamEnd(a) => Len(DoneArgs(trace[a])) = 1

C1_Witness ==
  \E a \in Attempts :
    /\ viaChan[a] /\ hin[a] = "ack" /\ startRet[a] = "nil"
    /\ ies = "some"
    /\ SawStreamEnd(a) /\ lret[a] = "ErrRecv"
    /\ Len(DoneArgs(trace[a])) = 1

\* C2 (as claimed): on every path by which the loop exits, Done has been
\* called exactly once, with nil for a clean end of stream and with the
\* causing error otherwise (the value processEvents returns).
C2_OneTerminalOutcome ==
  \A a \in Attempts :
    lpc[a] = "exited" => DoneArgs(trace[a]) = <<lret[a]>>

\* C3: every frame the loop receives is passed to Recv once, in the order
\* received, and no call starts before the previous Recv call has returned;
\* when the loop's Recv reports io.EOF the calls of the attempt are
\* GetInterestedEvents, the N deliveries, Done(nil), CloseSend; and on a
\* client started once the N frames are all the peer sent after the
\* acknowledgement, which itself is not delivered.
C3_InOrderDelivery ==
  \A a \in Attempts :
    /\ RecvArgs(trace[a]) = got[a]
    /\ \A i \in 1..Len(trace[a]) :
         (trace[a][i][1] = "Recv" /\ i < Len(trace[a])) => trace[a][i + 1][1] = "RecvReturns"
    /\ (lpc[a] = "exited" /\ lret[a] = "nil") =>
         /\ trace[a] = <<<<"GetInterestedEvents", "-">>>> \o Deliveries(got[a])
                         \o <<<<"Done", "nil">>, <<"CloseSend", "-">>>>
         /\ (nStarts = 1) => sentLog[a] = <<"ack">> \o got[a]

C3_Witness ==
  \E a \in Attempts :
    /\ lpc[a] = "exited" /\ lret[a] = "nil" /\ nStarts = 1
    /\ sentLog[a] = <<"ack", "evB", "evA">>
    /\ RecvArgs(trace[a]) = <<"evB", "evA">>
    /\ DoneArgs(trace[a]) = <<"nil">>

\* A Done call is made at most once, only as the loop returns, and never
\* followed by a Recv call; a loop that returned on a receive error called
\* Done once with the error its stream reported.
C4_DoneEndsDelivery ==
  \A a \in Attempts :
    /\ Len(DoneArgs(trace[a])) <= 1
    /\ DoneArgs(trace[a]) # <<>> => lpc[a] = "exited"
    /\ \A i, j \in 1..Len(trace[a]) :
         (trace[a][i][1] = "Done" /\ i < j) => trace[a][j][1] # "Recv"
    /\ (lpc[a] = "exited" /\ lret[a] = "ErrRecv") =>
         /\ ended[lstream[a]] = "ErrRecv"
         /\ DoneArgs(trace[a]) = <<"ErrRecv">>

\* C4: if the stream reports a receive error while the loop runs, Done is
\* called exactly once with that error and no Recv call follows; no event is
\* delivered to Recv after the loop has exited or after Done has been called.
C4_NoRecvAfterEnd ==
  /\ []C4_DoneEndsDelivery
  /\ [][\A a \in Attempts :
          (lpc[a] = "exited" \/ DoneArgs(trace[a]) # <<>>) =>
            RecvArgs(trace'[a]) = RecvArgs(trace[a])]_vars

C4_Witness ==
  \E a \in Attempts :
    /\ lpc[a] = "exited" /\ lret[a] = "ErrRecv"
    /\ RecvArgs(trace[a]) = <<"evA">>
    /\ DoneArgs(trace[a]) = <<"ErrRecv">>

\* C5 (as claimed): with a null subscriber, or an empty or absent interest
\* set, Start returns the configuration error, without a crash and before
\* any network activity (dial, stream open, send).
C5_ConfigErrorBeforeNetwork ==
  \A a \in Attempts :
    ((adapter = "null" \/ ies \in {"nil", "empty"}) /\ startRet[a] \notin {"none", "pending"}) =>
      /\ startRet[a] = "ErrNoEvents"
      /\ net[a] = {}

\* C6 (as claimed): when register leaves its select by the timeout case,
\* Start returns the timeout error, no receive loop is started for the
\* attempt and no Done call is made for it.
C6_TimeoutError ==
  \A a \in Attempts :
    TimedOut(a) =>
      /\ startRet[a] = "ErrTimeout"
      /\ lpc[a] = "none"
      /\ DoneArgs(trace[a]) = <<>>

\* C7: Start returns nil only if the helper's first frame is the
\* acknowledgement; when the first frame is of another kind Start fails and
\* neither Recv nor Done is called for the attempt, and when that frame is
\* classified before the timeout the error is the protocol error of its kind.
C7_FirstFrameDecides ==
  \A a \in Attempts :
    /\ startRet[a] = "nil" => hin[a] = "ack"
    /\ (Returned(a) /\ hin[a] \in Frames \ {"ack"}) =>
         /\ startRet[a] # "nil"
         /\ lpc[a] = "none"
         /\ RecvArgs(trace[a]) = <<>> /\ DoneArgs(trace[a]) = <<>>
    /\ (viaChan[a] /\ hin[a] \in {"evA", "evB"}) => startRet[a] = "ErrTransaction"
    /\ (viaChan[a] /\ hin[a] = "nilEv") => startRet[a] = "ErrNilObject"
    /\ (viaChan[a] /\ hin[a] = "other") => startRet[a] = "ErrRegistrationObject"

C7_Witness ==
  \E a \in Attempts :
    /\ viaChan[a] /\ hin[a] = "evA" /\ startRet[a] = "ErrTransaction"
    /\ lpc[a] = "none" /\ RecvArgs(trace[a]) = <<>>

\* The errors of the handshake phase, as Start returns them.
HandshakeErrors == {"ErrSend", "EOF", "ErrRecv", "ErrTimeout"} \cup ProtocolErrors

\* C8: the receive loop of an attempt exists only after its handshake has
\* completed with success (register has returned nil to Start, its helper
\* has exited); after a failed Start (a handshake failure included) Start has
\* returned the error, no receive loop exists for the attempt and no Done
\* call has been made for it.
C8_HandshakeBeforeLoop ==
  \A a \in Attempts :
    /\ lpc[a] # "none" =>
         /\ startRet[a] = "nil"
         /\ viaChan[a] /\ hpc[a] = "exited" /\ regChan[a] = "closed"
         /\ ~(cpc # "idle" /\ nStarts = a)
    /\ (Returned(a) /\ startRet[a] # "nil") =>
         /\ lpc[a] = "none"
         /\ DoneArgs(trace[a]) = <<>>
    /\ (regChan[a] # "none" /\ Returned(a) /\ startRet[a] # "nil") =>
         startRet[a] \in HandshakeErrors

C8_Witness ==
  /\ startRet[1] = "ErrRecv" /\ lpc[1] = "none" /\ hpc[1] = "exited"
  /\ startRet[2] = "nil" /\ lpc[2] = "handler"

\* No Start call has succeeded: the client has no active stream.
NoActiveStream == \A a \in Attempts : startRet[a] # "nil"

\* C9 (as claimed): a Stop call on a client with no active stream returns an
\* error: it neither crashes nor returns nil.
C9_StopWithoutStreamFails ==
  [][(nStops' = nStops + 1 /\ NoActiveStream) =>
       (~crashed' /\ stopRet'[nStops'] \notin {"nil", "panic"})]_vars

\* The latest Start call succeeded.
AfterSuccessfulStart == nStarts > 0 /\ startRet[nStarts] = "nil"

DialFailed(a) == startRet[a] = "ErrConn" /\ net[a] = {"dial"}

\* C11: a Start call whose dial fails returns the connection error with no
\* call made on the adapter (no GetInterestedEvents, Recv or Done), no stream
\* opened or made the client's stream handle, and no helper or receive loop
\* started.
C11_DialFailureNoSideEffects ==
  \A a \in Attempts :
    DialFailed(a) =>
      /\ trace[a] = <<>>
      /\ ended[a] = "unopened" /\ stream # a
      /\ regChan[a] = "none" /\ hpc[a] = "none" /\ lpc[a] = "none"

C11_Witness ==
  /\ adapter = "set" /\ ies = "some"
  /\ DialFailed(1) /\ trace[1] = <<>> /\ stream = 0
  /\ nStarts = 1

\* C12 (as claimed): when register left its select by the timeout case and
\* the helper's Recv has returned a frame, the helper has terminated: it is
\* not left blocked on its send to regChan.
C12_HelperTerminates ==
  \A a \in Attempts :
    (TimedOut(a) /\ hin[a] # "none") => hpc[a] = "exited"

\* The scheduling register's wait relies on: the timer of time.After fires
\* while the select waits, and the caller's goroutine runs on to its return.
FairStops == 1      \* Stop calls made by the caller under FairSpec
FairFrames == 2     \* frames the peer sends under FairSpec

\* Next with fewer Stop calls and peer frames.
FairNext ==
  \/ StartDialFails
  \/ StartNilAdapter
  \/ StartNoInterestedEvents
  \/ StartChatFails
  \/ StartSendFails
  \/ StartAwaitsRegistration
  \/ StartRegistered
  \/ StartTimesOut
  \/ StartReturnsAfterTimeout
  \/ (nStops < FairStops /\ StopNilStream)
  \/ (nStops < FairStops /\ StopCloseSend)
  \/ \E a \in Attempts : HelperCallRecv(a)
  \/ \E a \in Attempts : HelperRecvFrame(a)
  \/ \E a \in Attempts : HelperRecvError(a)
  \/ \E a \in Attempts : LoopEnter(a)
  \/ \E a \in Attempts : LoopCallRecv(a)
  \/ \E a \in Attempts : LoopRecvFrame(a)
  \/ \E a \in Attempts : LoopHandlerOk(a)
  \/ \E a \in Attempts : LoopHandlerError(a)
  \/ \E a \in Attempts : LoopRecvEOF(a)
  \/ \E a \in Attempts : LoopRecvError(a)
  \/ \E s \in Attempts, f \in Frames : (nSent < FairFrames /\ PeerSend(s, f))
  \/ \E s \in Attempts, e \in RecvErrors : PeerClose(s, e)

FairSpec ==
  /\ Init
  /\ [][FairNext]_vars
  /\ WF_vars(StartTimesOut)
  /\ WF_vars(StartReturnsAfterTimeout)

\* C13: once the registration is sent and register waits in its select,
\* Start returns in every execution (whatever the peer sends, if anything),
\* and the value it returned is its one outcome: it never changes.
C13_HandshakeReturns ==
  /\ \A a \in Attempts : (startRet[a] = "pending") ~> Returned(a)
  /\ [][\A a \in Attempts : Returned(a) => startRet'[a] = startRet[a]]_vars

C13_Witness ==
  /\ TimedOut(1) /\ startRet[1] = "ErrTimeout"
  /\ sentLog[1] = <<>> /\ ended[1] = "open" /\ hpc[1] = "recv"

\* C14: when adapter.Recv returns an error the loop returns that error at
\* once: the handler's error return is the last adapter event of the loop,
\* followed only by the cleanup, no Done call is made, and the exited loop
\* receives and delivers nothing more.
C14_HandlerErrorEndsLoop ==
  /\ [](\A a \in Attempts :
          /\ (\E i \in 1..Len(trace[a]) : trace[a][i] = <<"RecvReturns", "ErrHandler">>) =>
               (lpc[a] = "exited" /\ lret[a] = "ErrHandler")
          /\ lret[a] = "ErrHandler" =>
               /\ lpc[a] = "exited"
               /\ DoneArgs(trace[a]) = <<>>
               /\ Len(trace[a]) >= 3
               /\ trace[a][Len(trace[a]) - 1] = <<"RecvReturns", "ErrHandler">>
               /\ trace[a][Len(trace[a])] = <<"CloseSend", "-">>
               /\ RecvArgs(trace[a]) = got[a])
  /\ [][\A a \in Attempts :
          lret[a] = "ErrHandler" =>
            (got'[a] = got[a] /\ trace'[a] = trace[a] /\ lpc'[a] = lpc[a])]_vars

C14_Witness ==
  \E a \in Attempts :
    /\ lret[a] = "ErrHandler" /\ lpc[a] = "exited"
    /\ got[a] = <<"evA">>
    /\ wire[lstream[a]] = <<"evB">>
    /\ DoneArgs(trace[a]) = <<>>

\* The tasks with a Recv call in flight on stream s.
Readers(s) ==
  {<<"helper", a>> : a \in {b \in Attempts : hpc[b] = "recv" /\ hstream[b] = s}}
    \cup {<<"loop", a>> : a \in {b \in Attempts : lpc[b] = "recv" /\ lstream[b] = s}}

\* C15 (as claimed): at no time are two Recv calls in flight on the same
\* stream handle.
C15_SingleReader ==
  \A s \in Attempts : Cardinality(Readers(s)) <= 1

\* C16: a Stop call makes no adapter call and changes neither the loops nor
\* the inbound direction of any stream; every frame a loop receives, on a
\* half-closed stream as on any other, is handed to Recv; and a loop leaves
\* its Recv call for good only when the stream has ended, with Done called
\* with the value the loop returns.
C16_StopLeavesLoopRunning ==
  [][/\ (nStops' = nStops + 1) =>
          UNCHANGED <<trace, lpc, lret, got, lstream, wire, ended>>
     /\ \A a \in Attempts :
          /\ got'[a] # got[a] =>
               trace'[a] = Append(trace[a], <<"Recv", got'[a][Len(got'[a])]>>)
          /\ (lpc[a] = "recv" /\ lpc'[a] = "exited") =>
               /\ wire[lstream[a]] = <<>>
               /\ ended[lstream[a]] \in RecvErrors
               /\ DoneArgs(trace'[a]) = <<lret'[a]>>]_vars

C16_Witness ==
  /\ nStarts = 1 /\ stopRet = <<"nil">> /\ sendClosed[1]
  /\ lpc[1] = "recv" /\ wire[1] = <<"evA">> /\ ended[1] = "open"
  /\ got[1] = <<>> /\ DoneArgs(trace[1]) = <<>>

\* C17 (as claimed): only event payloads are delivered to Recv.
C17_OnlyEventsDelivered ==
  \A a \in Attempts :
    \A i \in 1..Len(RecvArgs(trace[a])) :
      Kind(RecvArgs(trace[a])[i]) = "TransactionEvent"

\* C18 (as claimed): once a Start call has succeeded, no later Start call on
\* the client begins a new subscription: no new registration is sent, and no
\* new helper or receive loop is started.
C18_NoRestart ==
  \A a, b \in Attempts :
    (a < b /\ startRet[a] = "nil") =>
      /\ "send" \notin net[b]
      /\ hpc[b] = "none"
      /\ lpc[b] = "none"

\* The positions of the events of kind k in the trace tr.
Positions(tr, k) == {i \in 1..Len(tr) : tr[i][1] = k}

\* C19: when a loop has exited, by any path, the stream bound by its deferred
\* CloseSend is half-closed, and that CloseSend is the single, last event of
\* the loop: it comes after the Done call, if any.
C19_CleanupAfterDone ==
  \A a \in Attempts :
    /\ lpc[a] = "exited" =>
         /\ lclose[a] # 0 /\ sendClosed[lclose[a]]
         /\ Positions(trace[a], "CloseSend") = {Len(trace[a])}
         /\ \A i \in Positions(trace[a], "Done") : i < Len(trace[a])
    /\ lpc[a] # "exited" => Positions(trace[a], "CloseSend") = {}

C19_Witness ==
  \E a \in Attempts :
    /\ lpc[a] = "exited" /\ lret[a] = "ErrRecv" /\ nStops = 0
    /\ sendClosed[lclose[a]]
    /\ Positions(trace[a], "Done") = {Len(trace[a]) - 1}

====
